---- MODULE Spec2Model ----
(***************************************************************************)
(* A model of the PyPipeline execution core (src/pipeline_base.py) and of  *)
(* the pipeline assembled in src/testing.py.                               *)
(*                                                                         *)
(* A pipeline is built by a script of builder calls (dependency, output,   *)
(* transformer, stage, match) and then run on initial records.  A run is   *)
(* modelled at stage granularity: RunStart is the head of Pipeline._run    *)
(* (validation and merge of the initial record), RunStage is one iteration *)
(* of its loop (resolution of the stage's inputs, providers included, the  *)
(* stage's invocation, nested branches included, and the merge of its      *)
(* result), RunReturn is the projection made by Pipeline.run.              *)
(* Spec makes the runs one after the other; SpecInterleaved adds a second  *)
(* invocation of run on the same instance, interleaved between stages.     *)
(***************************************************************************)
EXTENDS Integers, Sequences, FiniteSets, TLC

\* ------------------------------------------------------------------------
\* Bounds of the model and constants of the program
\* ------------------------------------------------------------------------
Spread == 1               \* initial records hold x in TestX-Spread .. TestX+Spread
MaxRuns == 2              \* runs made on one pipeline instance
RecursionLimit == 3       \* nested provider resolutions the call stack can hold
TestX == 5                \* the x of testing.py's run({"x": 5})
CACHE_DEFAULT_SIZE == 128 \* maxsize of the lru_cache installed by @cache

XVals == (TestX - Spread)..(TestX + Spread)

\* ------------------------------------------------------------------------
\* Values, records and schemas
\* ------------------------------------------------------------------------
\* A Python value: an int, a str or None.  Values of different types are
\* different records, so == between them is FALSE as in Python.
IntV(n) == [ty |-> "int", v |-> n]
StrV == [ty |-> "str", v |-> 0]
NoneV == [ty |-> "NoneType", v |-> 0]

\* A dict of values (a record store, a run's initial record, a result) is a
\* function from its keys; EmptyRec is {}.
EmptyRec == [k \in {} |-> NoneV]

\* dict.update(other): other's entries overwrite same-named entries
Update(d, other) ==
    [k \in DOMAIN d \cup DOMAIN other |-> IF k \in DOMAIN other THEN other[k] ELSE d[k]]

\* A schema (PipelineInputMap / PipelineOutputMap) is an insertion-ordered
\* dict name -> type: a sequence of <<name, type>> pairs with distinct names.
Keys(schema) == [i \in 1..Len(schema) |-> schema[i][1]]
KeySet(schema) == {schema[i][1] : i \in 1..Len(schema)}

RECURSIVE SchemaSet(_, _, _)
\* schema[name] = type: replaces the type in place, or appends a new key
SchemaSet(schema, name, type) ==
    IF schema = <<>> THEN << <<name, type>> >>
    ELSE IF schema[1][1] = name THEN << <<name, type>> >> \o Tail(schema)
    ELSE <<schema[1]>> \o SchemaSet(Tail(schema), name, type)

RECURSIVE SchemaUpdate(_, _)
\* schema.update(other) on ordered dicts
SchemaUpdate(schema, other) ==
    IF other = <<>> THEN schema
    ELSE SchemaUpdate(SchemaSet(schema, other[1][1], other[1][2]), Tail(other))

\* isinstance(value, expected_type).  typing.Any refuses isinstance: the call
\* itself raises TypeError, whatever the value.
isinstance(value, type) ==
    IF type = "Any" THEN "raise"
    ELSE IF value.ty = type THEN "true" ELSE "false"

\* ------------------------------------------------------------------------
\* Declaring stages and providers
\* ------------------------------------------------------------------------
\* normalize_io: None -> {}, dict -> itself, list of names / single name ->
\* every name with the open type
normalize_io(io) ==
    CASE io.form = "none" -> <<>>
      [] io.form = "dict" -> io.items
      [] io.form = "list" -> [i \in 1..Len(io.names) |-> <<io.names[i], "Any">>]
      [] io.form = "str"  -> << <<io.name, "Any">> >>

\* infer_input_types: one input per parameter; an unannotated parameter
\* ("empty") gets the open type
infer_input_types(func) ==
    [i \in 1..Len(func.params) |->
        <<func.params[i][1],
          IF func.params[i][2] = "empty" THEN "Any" ELSE func.params[i][2]>>]

\* infer_output_types for the return annotations used here: no annotation,
\* -> None, or a single primitive type named by output_name (default "output")
infer_output_types(func, name) ==
    CASE func.ret = "empty"    -> <<>>
      [] func.ret = "NoneType" -> <<>>
      [] OTHER -> << <<IF name # "" THEN name ELSE "output", func.ret>> >>

NoIO == [form |-> "none"]
Unset == [form |-> "unset"]

\* The attributes the @stage / @transformer decorators attach to a function
\* and FunctionStage.__init__ / PipelineTransformer.__init__ read back
Decorate(kind, func, inputs, outputs, output_name) ==
    [kind    |-> kind,
     name    |-> func.name,
     inputs  |-> IF inputs.form # "unset" THEN normalize_io(inputs)
                 ELSE infer_input_types(func),
     outputs |-> IF outputs.form # "unset" THEN normalize_io(outputs)
                 ELSE infer_output_types(func, output_name),
     unwrap  |-> inputs.form = "unset",
     cached  |-> func.cache]

stage(func, inputs, outputs, output_name) ==
    Decorate("func", func, inputs, outputs, output_name)

transformer(func, inputs, outputs, output_name) ==
    Decorate("transformer", func, inputs, outputs, output_name)

\* ------------------------------------------------------------------------
\* The functions the pipelines are assembled from
\* ------------------------------------------------------------------------
Def(name, params, ret, cache) ==
    [name |-> name, params |-> params, ret |-> ret, cache |-> cache]

\* testing.py
double          == Def("double", << <<"x", "int">> >>, "int", FALSE)
add_one         == Def("add_one", << <<"x2", "int">> >>, "int", FALSE)
display_success == Def("display_success", <<>>, "NoneType", FALSE)
display_failure == Def("display_failure", <<>>, "NoneType", FALSE)
display_values  == Def("display_values",
                       << <<"x", "int">>, <<"x2", "int">>, <<"x2plus1", "int">> >>,
                       "NoneType", FALSE)
\* further functions exercising the core
add_one_cached  == Def("add_one_cached", << <<"x2", "int">> >>, "int", TRUE)
pair            == Def("pair", << <<"x", "int">> >>, "empty", FALSE)
peek            == Def("peek", << <<"x", "empty">> >>, "empty", FALSE)
first           == Def("first", << <<"inputs", "empty">> >>, "empty", FALSE)
mark_case       == Def("mark_case", <<>>, "int", FALSE)
mark_default    == Def("mark_default", <<>>, "int", FALSE)
mark_finally    == Def("mark_finally", <<>>, "int", FALSE)
triple          == Def("triple", << <<"x", "int">> >>, "int", FALSE)
spread          == Def("spread", << <<"x2", "int">> >>, "empty", FALSE)
use4            == Def("use4", << <<"x4", "int">> >>, "int", FALSE)
ping            == Def("ping", << <<"b", "int">> >>, "int", FALSE)
pong            == Def("pong", << <<"a", "int">> >>, "int", FALSE)
use_a           == Def("use_a", << <<"a", "int">> >>, "int", FALSE)
bump            == Def("bump", << <<"x", "int">> >>, "int", FALSE)
quiet           == Def("quiet", << <<"x", "int">> >>, "empty", FALSE)
leak            == Def("leak", << <<"x", "int">> >>, "empty", FALSE)

\* What a function returns: a bare value, an ordered sequence (tuple, list),
\* a dict, or a dataclass instance
Scalar(v)  == [shape |-> "scalar", val |-> v, vals |-> <<>>, map |-> EmptyRec]
SeqOf(vs)  == [shape |-> "seq", val |-> NoneV, vals |-> vs, map |-> EmptyRec]
DictOf(d)  == [shape |-> "dict", val |-> NoneV, vals |-> <<>>, map |-> d]

\* The body of each function, applied to its (validated) arguments
Body(name, args) ==
    CASE name = "double"         -> Scalar(IntV(args["x"].v * 2))
      [] name = "add_one"        -> Scalar(IntV(args["x2"].v + 1))
      [] name = "add_one_cached" -> Scalar(IntV(args["x2"].v + 1))
      [] name = "pair"           -> SeqOf(<<args["x"], IntV(args["x"].v + 1)>>)
      [] name = "peek"           -> Scalar(args["x"])
      [] name = "first"          -> Scalar(args["x"])
      [] name = "mark_case"      -> Scalar(IntV(1))
      [] name = "mark_default"   -> Scalar(IntV(2))
      [] name = "mark_finally"   -> Scalar(IntV(3))
      [] name = "quiet"          -> Scalar(IntV(7))
      [] name = "bump"           -> Scalar(IntV(args["x"].v + 1))
      [] name = "ping"           -> Scalar(args["b"])
      [] name = "pong"           -> Scalar(args["a"])
      [] name = "use_a"          -> Scalar(args["a"])
      [] name = "triple"         -> Scalar(IntV(args["x"].v * 3))
      [] name = "spread"         -> SeqOf(<<IntV(args["x2"].v * 2), IntV(args["x2"].v * 3)>>)
      [] name = "use4"           -> Scalar(IntV(args["x4"].v + 1))
      [] name = "leak"           -> DictOf([k \in {"z"} |-> IntV(9)])
      [] OTHER                   -> Scalar(NoneV)

CachedNames == {"add_one_cached"}

\* ------------------------------------------------------------------------
\* Invocation of a stage or provider
\* ------------------------------------------------------------------------
\* The interpreter threads a machine state m through the calls:
\*   recs   the record store of every scope (data_records of each Pipeline)
\*   cache  the lru_cache of every cached function, least recently used first
\*   trace  the calls made so far (history)
\*   err    the exception that is propagating, "none" when there is none
\*   ret    the value returned by the call just made
\*   depth  the number of provider resolutions (_get_input frames that reached
\*          the loop over the providers) on the call stack
Fail(m, e) == [m EXCEPT !.err = e]
Return(m, v) == [m EXCEPT !.ret = v]
\* An entry of the history: ev is the kind of call, sc the scope (pipeline or
\* branch id) it is made in, name the function or field, args the record it
\* is given, out the record it returns, type the type a failed check expected
Entry(ev, sc, name, args, out, type) ==
    [ev |-> ev, sc |-> sc, name |-> name, args |-> args, out |-> out, type |-> type]
Event(ev, sc, name, args) == Entry(ev, sc, name, args, EmptyRec, "")
Log(m, ev, sc, name, args) == [m EXCEPT !.trace = Append(@, Event(ev, sc, name, args))]
LogOut(m, sc, name, args, out) ==
    [m EXCEPT !.trace = Append(@, Entry("output", sc, name, args, out, ""))]
\* an exception raised by a validation: the history keeps the field and the
\* type that was expected
Reject(m, sc, bad, inputs) ==
    Fail([m EXCEPT !.trace = Append(@, Entry(bad.err, sc, bad.key, inputs, EmptyRec, bad.type))],
         bad.err)

Passed == [err |-> "none", key |-> "", type |-> ""]

RECURSIVE validate(_, _)
\* for key, expected_type in schema.items(): presence, then isinstance
validate(schema, inputs) ==
    IF schema = <<>> THEN Passed
    ELSE IF schema[1][1] \notin DOMAIN inputs
    THEN [err |-> "KeyError", key |-> schema[1][1], type |-> schema[1][2]]
    ELSE IF isinstance(inputs[schema[1][1]], schema[1][2]) # "true"
    THEN [err |-> "TypeError", key |-> schema[1][1], type |-> schema[1][2]]
    ELSE validate(Tail(schema), inputs)

PipelineTransformer_validate_inputs(t, inputs) == validate(t.inputs, inputs)
PipelineStage_validate_inputs(st, inputs) == validate(st.inputs, inputs)
Pipeline_validate_inputs(dependencies, inputs) == validate(dependencies, inputs)

\* dict(zip(output_names, result))
Zip(names, vals) ==
    [k \in {names[i] : i \in 1..Len(names)} |->
        vals[CHOOSE i \in 1..Len(names) :
                names[i] = k /\ \A j \in (i+1)..Len(names) : names[j] # k]]

NormOk(d) == [err |-> "none", map |-> d]
NormErr(e) == [err |-> e, map |-> EmptyRec]

\* normalize_result without the length check: zip drops what does not pair
normalize_result_zip(result, output_names) ==
    CASE result.shape \in {"dict", "dataclass"} -> NormOk(result.map)
      [] result.shape = "seq" -> NormOk(Zip(output_names, result.vals))
      [] OTHER ->
            IF Len(output_names) = 1 THEN NormOk([k \in {output_names[1]} |-> result.val])
            ELSE IF Len(output_names) = 0 THEN NormOk(EmptyRec)
            ELSE NormErr("TypeError")

normalize_result(result, output_names) ==
    CASE result.shape = "dict" -> NormOk(result.map)
      [] result.shape = "seq" ->
            IF Len(result.vals) # Len(output_names) THEN NormErr("ValueError")
            ELSE NormOk(Zip(output_names, result.vals))
      [] result.shape = "dataclass" -> NormOk(result.map)
      [] OTHER ->
            IF Len(output_names) = 1 THEN NormOk([k \in {output_names[1]} |-> result.val])
            ELSE IF Len(output_names) = 0 THEN NormOk(EmptyRec)
            ELSE NormErr("TypeError")

\* lru_cache(maxsize=size)(func): the table of one function is a sequence of
\* <<key, value>> entries, least recently used first
LruFind(table, key) ==
    IF \E i \in 1..Len(table) : table[i][1] = key
    THEN CHOOSE i \in 1..Len(table) : table[i][1] = key
    ELSE 0

Without(table, i) == SubSeq(table, 1, i - 1) \o SubSeq(table, i + 1, Len(table))

LruTouch(table, i) == Append(Without(table, i), table[i])

LruInsert(table, key, value, size) ==
    LET t == Append(table, <<key, value>>)
    IN IF Len(t) > size THEN Tail(t) ELSE t

\* a call that never consults the lru_cache table
CallFunc_nocache(m, sc, st, inputs) ==
    Return(Log(m, "exec", sc, st.name, inputs), Body(st.name, inputs))

\* self._func(**inputs) / self._func(inputs): the function itself, or the
\* lru_cache wrapper around it when the function is decorated with @cache.
\* The wrapper hashes its arguments: the aggregated dict passed in explicit
\* mode is unhashable.
CallFunc(m, sc, st, inputs) ==
    IF ~st.cached
    THEN Return(Log(m, "exec", sc, st.name, inputs), Body(st.name, inputs))
    ELSE IF ~st.unwrap THEN Fail(m, "TypeError")
    ELSE LET table == m.cache[st.name]
             hit == LruFind(table, inputs)
         IN IF hit # 0
            THEN Return([m EXCEPT !.cache[st.name] = LruTouch(table, hit)], table[hit][2])
            ELSE LET value == Body(st.name, inputs)
                     m1 == Log(m, "exec", sc, st.name, inputs)
                 IN Return([m1 EXCEPT !.cache[st.name] =
                                LruInsert(table, inputs, value, CACHE_DEFAULT_SIZE)],
                           value)

\* FunctionStage.run / PipelineTransformer.transform, last lines: the value
\* returned by the function (c.ret) reshaped to the declared outputs
Reshaped(c, sc, st, inputs, r) ==
    IF r.err # "none" THEN Fail(c, r.err)
    ELSE Return(LogOut(c, sc, st.name, inputs, r.map), r.map)

Called(c, sc, st, inputs) ==
    IF c.err # "none" THEN c
    ELSE Reshaped(c, sc, st, inputs, normalize_result(c.ret, Keys(st.outputs)))

\* ... their first lines: the inputs are validated (bad is the verdict), then
\* the function is called
Invoked(m, sc, st, inputs, bad) ==
    IF bad.err # "none" THEN Reject(m, sc, bad, inputs)
    ELSE Called(CallFunc(m, sc, st, inputs), sc, st, inputs)

\* FunctionStage.run
FunctionStage_run(m, sc, st, inputs) ==
    Invoked(Log(m, "invoke", sc, st.name, inputs), sc, st, inputs,
            PipelineStage_validate_inputs(st, inputs))

\* PipelineTransformer.transform
PipelineTransformer_transform(m, sc, t, inputs) ==
    Invoked(Log(m, "invoke", sc, t.name, inputs), sc, t, inputs,
            PipelineTransformer_validate_inputs(t, inputs))

\* ------------------------------------------------------------------------
\* Pipelines: construction and builder calls
\* ------------------------------------------------------------------------
\* Pipeline.__init__(dependencies=None, outputs=None), also the Pipeline part
\* of PipelineBranch.__init__.  id names the object: its record store is
\* recs[id].
NewPipeline(id) ==
    [kind |-> "branch", id |-> id,
     transforms |-> <<>>, stages |-> <<>>,
     dependencies |-> <<>>, deps_set |-> FALSE,
     outputs |-> <<>>, out_set |-> FALSE]

\* MatchCaseBranch.__init__; default_branch / finally_branch are <<>> for None
NewMatch(id, key_name) ==
    [kind |-> "match", id |-> id, key_name |-> key_name,
     cases |-> <<>>, default_branch |-> <<>>, finally_branch |-> <<>>]

RECURSIVE BranchesInputs(_, _)
BranchesInputs(inputs, branches) ==
    IF branches = <<>> THEN inputs
    ELSE BranchesInputs(SchemaUpdate(inputs, branches[1].dependencies), Tail(branches))

RECURSIVE BranchesOutputs(_, _)
BranchesOutputs(outputs, branches) ==
    IF branches = <<>> THEN outputs
    ELSE BranchesOutputs(SchemaUpdate(outputs, branches[1].outputs), Tail(branches))

\* the branches of a match node in the order get_inputs / get_outputs visit them
Arms(mt) ==
    [i \in 1..Len(mt.cases) |-> mt.cases[i].branch] \o mt.default_branch \o mt.finally_branch

\* MatchCaseBranch.get_inputs: the key with the open type, then the
\* dependencies of every case, of default and of finally
MatchCaseBranch_get_inputs(mt) ==
    BranchesInputs(<< <<mt.key_name, "Any">> >>, Arms(mt))

\* MatchCaseBranch.get_outputs: the union of the outputs of all branches
MatchCaseBranch_get_outputs(mt) == BranchesOutputs(<<>>, Arms(mt))

\* stage.get_inputs() / stage.get_outputs() for the three kinds of stage
get_inputs(st) ==
    CASE st.kind = "match"  -> MatchCaseBranch_get_inputs(st)
      [] st.kind = "branch" -> st.dependencies
      [] OTHER              -> st.inputs

get_outputs(st) ==
    CASE st.kind = "match"  -> MatchCaseBranch_get_outputs(st)
      [] st.kind = "branch" -> st.outputs
      [] OTHER              -> st.outputs

\* _append_stage taking the output schema from the first stage only
Pipeline_append_stage_first(p, st) ==
    LET p1 == [p EXCEPT !.stages = Append(@, st)]
    IN IF Len(p1.stages) = 1
       THEN [p1 EXCEPT !.dependencies = IF p1.deps_set THEN @ ELSE get_inputs(st),
                       !.outputs = IF p1.out_set THEN @ ELSE get_outputs(st)]
       ELSE p1

\* _append_stage taking the dependency schema from every appended stage
Pipeline_append_stage_lastdeps(p, st) ==
    LET p1 == [p EXCEPT !.stages = Append(@, st)]
        p2 == IF ~p1.deps_set THEN [p1 EXCEPT !.dependencies = get_inputs(st)] ELSE p1
    IN IF ~p2.out_set THEN [p2 EXCEPT !.outputs = get_outputs(st)] ELSE p2

\* Pipeline._append_stage
Pipeline_append_stage(p, st) ==
    LET p1 == [p EXCEPT !.stages = Append(@, st)]
        p2 == IF Len(p1.stages) = 1 /\ ~p1.deps_set
              THEN [p1 EXCEPT !.dependencies = get_inputs(st)] ELSE p1
    IN IF ~p2.out_set THEN [p2 EXCEPT !.outputs = get_outputs(st)] ELSE p2

\* Pipeline.stage
Pipeline_stage(p, st) == Pipeline_append_stage(p, st)

\* Pipeline.transformer
Pipeline_transformer(p, t) == [p EXCEPT !.transforms = Append(@, t)]

\* Pipeline.dependency
Pipeline_dependency(p, dependencies) ==
    [p EXCEPT !.deps_set = TRUE, !.dependencies = dependencies]

\* Pipeline.output
Pipeline_output(p, outputs) == [p EXCEPT !.out_set = TRUE, !.outputs = outputs]

RECURSIVE StagesInto(_, _)
\* branch.stage(s1).stage(s2)...
StagesInto(p, sts) ==
    IF sts = <<>> THEN p ELSE StagesInto(Pipeline_stage(p, sts[1]), Tail(sts))

\* MatchCaseBranch.case / default / finally_, followed by the .stage calls
\* made on the branch they return.  Branch k of the match node id has the
\* id  id \o <<k>>: k = position for a case, 0 for default, -1 for finally.
MatchCaseBranch_case(mt, value, sts) ==
    [mt EXCEPT !.cases = Append(@,
        [value |-> value,
         branch |-> StagesInto(NewPipeline(mt.id \o <<Len(mt.cases) + 1>>), sts)])]

MatchCaseBranch_default(mt, sts) ==
    [mt EXCEPT !.default_branch = <<StagesInto(NewPipeline(mt.id \o <<0>>), sts)>>]

MatchCaseBranch_finally(mt, sts) ==
    [mt EXCEPT !.finally_branch = <<StagesInto(NewPipeline(mt.id \o <<-1>>), sts)>>]

RECURSIVE MatchArms(_, _)
\* fn(helper): the calls the callback makes on the MatchHelper
MatchArms(mt, arms) ==
    IF arms = <<>> THEN mt
    ELSE LET a == arms[1]
             mt1 == CASE a.arm = "case"    -> MatchCaseBranch_case(mt, a.value, a.stages)
                      [] a.arm = "default" -> MatchCaseBranch_default(mt, a.stages)
                      [] OTHER             -> MatchCaseBranch_finally(mt, a.stages)
         IN MatchArms(mt1, Tail(arms))

\* match(self, key_name, fn): MatchHelper.__init__, fn(helper), helper.end()
match(p, key_name, arms) ==
    Pipeline_stage(p, MatchArms(NewMatch(p.id \o <<Len(p.stages) + 1>>, key_name), arms))

\* the ids of the branches a stage holds
BranchIds(st) ==
    IF st.kind = "match" THEN {Arms(st)[i].id : i \in 1..Len(Arms(st))} ELSE {}

\* ------------------------------------------------------------------------
\* The dependency resolver
\* ------------------------------------------------------------------------
\* the provider registered last instead of the one registered first
ProviderOf_last(p, name) ==
    IF \E i \in 1..Len(p.transforms) : name \in KeySet(p.transforms[i].outputs)
    THEN CHOOSE i \in 1..Len(p.transforms) :
            /\ name \in KeySet(p.transforms[i].outputs)
            /\ \A j \in (i + 1)..Len(p.transforms) : name \notin KeySet(p.transforms[j].outputs)
    ELSE 0

\* the first provider of p, in registration order, that declares name
ProviderOf(p, name) ==
    IF \E i \in 1..Len(p.transforms) : name \in KeySet(p.transforms[i].outputs)
    THEN CHOOSE i \in 1..Len(p.transforms) :
            /\ name \in KeySet(p.transforms[i].outputs)
            /\ \A j \in 1..(i - 1) : name \notin KeySet(p.transforms[j].outputs)
    ELSE 0

\* Pipeline._has_input
Pipeline_has_input(m, p, name) ==
    name \in DOMAIN m.recs[p.id] \/ ProviderOf(p, name) # 0

RECURSIVE Pipeline_get_input(_, _, _)
RECURSIVE Pipeline_resolve_input(_, _, _, _)
RECURSIVE ResolveAll(_, _, _, _, _)
RECURSIVE Resolved(_, _, _, _, _, _)

\* Pipeline.resolve_input(parent, input).  The fallback parent.resolve_input(input)
\* passes one argument where two are required: the call raises TypeError.
Pipeline_resolve_input(m, p, parentIsNone, name) ==
    IF Pipeline_has_input(m, p, name) THEN Pipeline_get_input(m, p, name)
    ELSE IF ~parentIsNone THEN Fail(m, "TypeError")
    ELSE Fail(m, "LookupError")

\* the loop "for key, expected_type in X.get_inputs().items():
\*               required_inputs[key] = self.resolve_input(parent, input_def)"
\* from its k-th key on; m.ret carries required_inputs
ResolveAll(m, p, parentIsNone, schema, k) ==
    IF k > Len(schema) THEN m
    ELSE Resolved(m, Pipeline_resolve_input(m, p, parentIsNone, schema[k][1]),
                  p, parentIsNone, schema, k)

\* ... r is what resolve_input gave for the k-th key
Resolved(m, r, p, parentIsNone, schema, k) ==
    IF r.err # "none" THEN r
    ELSE ResolveAll(Return(r, Update(m.ret, [f \in {schema[k][1]} |-> r.ret])),
                    p, parentIsNone, schema, k + 1)

\* Pipeline._get_input, lines 353-354: the provider's result tr.ret is merged
\* into the store and the requested field returned
Provided(tr, p, name) ==
    IF tr.err # "none" THEN tr
    ELSE IF name \in DOMAIN tr.ret
    THEN Return([tr EXCEPT !.recs[p.id] = Update(@, tr.ret), !.depth = @ - 1], tr.ret[name])
    ELSE Fail([tr EXCEPT !.recs[p.id] = Update(@, tr.ret)], "KeyError")

\* ... line 352: the provider is invoked on its resolved inputs req.ret
Required(req, p, t, name) ==
    IF req.err # "none" THEN req
    ELSE Provided(PipelineTransformer_transform(req, p.id, t, req.ret), p, name)

\* Pipeline._get_input.  Nothing in it detects a provider that is already
\* being resolved: providers whose inputs and outputs form a cycle call one
\* another until the interpreter's call stack is exhausted, which Python
\* reports as RecursionError.
Pipeline_get_input(m, p, name) ==
    IF name \in DOMAIN m.recs[p.id] THEN Return(m, m.recs[p.id][name])
    ELSE IF ProviderOf(p, name) = 0 THEN Fail(m, "KeyError")
    ELSE IF m.depth >= RecursionLimit THEN Fail(m, "RecursionError")
    ELSE Required(ResolveAll(Return([m EXCEPT !.depth = @ + 1], EmptyRec), p, FALSE,
                             p.transforms[ProviderOf(p, name)].inputs, 1),
                  p, p.transforms[ProviderOf(p, name)], name)

\* ------------------------------------------------------------------------
\* Running a pipeline, a branch, a match node
\* ------------------------------------------------------------------------
RECURSIVE RunLoop(_, _, _, _)
RECURSIVE RunIteration(_, _, _, _)
RECURSIVE Staged(_, _, _)
RECURSIVE Pipeline_run_(_, _, _, _)
RECURSIVE PipelineBranch_run(_, _, _)
RECURSIVE MatchCaseBranch_run(_, _, _)
RECURSIVE Stage_run(_, _, _, _)

\* the initial record merged before it is validated
Checked_mergefirst(m, p, inputs, bad) ==
    IF bad.err # "none"
    THEN Reject([m EXCEPT !.recs[p.id] = Update(@, inputs)], p.id, bad, inputs)
    ELSE Return([m EXCEPT !.recs[p.id] = Update(@, inputs)], EmptyRec)

\* Pipeline._run, lines 383-385: validation of the initial record, its merge
\* into the store, result = {}
Checked(m, p, inputs, bad) ==
    IF bad.err # "none" THEN Reject(m, p.id, bad, inputs)
    ELSE Return([m EXCEPT !.recs[p.id] = Update(@, inputs)], EmptyRec)

RunHead(m, p, inputs) ==
    Checked(m, p, inputs, Pipeline_validate_inputs(p.dependencies, inputs))

\* stage.run(required_inputs, self), by the class of the stage
Stage_run(m, p, st, inputs) ==
    CASE st.kind = "match"  -> MatchCaseBranch_run(m, st, inputs)
      [] st.kind = "branch" -> PipelineBranch_run(m, st, inputs)
      [] OTHER              -> FunctionStage_run(m, p.id, st, inputs)

\* a merge that keeps the fields the store already holds
Merged_absent(r, p) ==
    IF r.err # "none" THEN r ELSE [r EXCEPT !.recs[p.id] = Update(r.ret, @)]

\* Pipeline._run, line 396: the stage's result r.ret is merged into the store
Merged(r, p) ==
    IF r.err # "none" THEN r ELSE [r EXCEPT !.recs[p.id] = Update(@, r.ret)]

\* Pipeline._run, lines 390-395: LookupError (KeyError included) from the
\* resolver is re-raised as KeyError; otherwise the stage runs on req.ret
Staged(req, p, st) ==
    IF req.err \in {"LookupError", "KeyError"} THEN Fail(req, "KeyError")
    ELSE IF req.err # "none" THEN req
    ELSE Merged(Stage_run(req, p, st, req.ret), p)

\* Pipeline._run, lines 387-396: one iteration of the loop over the stages
RunIteration(m, p, i, parentIsNone) ==
    Staged(ResolveAll(Return(m, EmptyRec), p, parentIsNone, get_inputs(p.stages[i]), 1),
           p, p.stages[i])

RunLoop(m, p, i, parentIsNone) ==
    IF i > Len(p.stages) \/ m.err # "none" THEN m
    ELSE RunLoop(RunIteration(m, p, i, parentIsNone), p, i + 1, parentIsNone)

\* Pipeline._run
Pipeline_run_(m, p, inputs, parentIsNone) ==
    RunLoop(RunHead(m, p, inputs), p, 1, parentIsNone)

\* return self.data_records
WholeStore(r, br) ==
    IF r.err # "none" THEN r ELSE Return(r, r.recs[br.id])

\* PipelineBranch.run: the branch is run with the invoking pipeline as parent
\* and returns its whole record store
PipelineBranch_run(m, br, inputs) ==
    WholeStore(Pipeline_run_(Log(m, "branch", br.id, "", inputs), br, inputs, FALSE), br)

\* inputs.get(self.key_name)
MatchValue(mt, inputs) ==
    IF mt.key_name \in DOMAIN inputs THEN inputs[mt.key_name] ELSE NoneV

\* the last matching case instead of the first (a loop without break)
MatchedCase_last(mt, match_value) ==
    IF \E i \in 1..Len(mt.cases) : mt.cases[i].value = match_value
    THEN CHOOSE i \in 1..Len(mt.cases) :
            /\ mt.cases[i].value = match_value
            /\ \A j \in (i + 1)..Len(mt.cases) : mt.cases[j].value # match_value
    ELSE 0

\* the first case, in declaration order, whose value equals match_value
MatchedCase(mt, match_value) ==
    IF \E i \in 1..Len(mt.cases) : mt.cases[i].value = match_value
    THEN CHOOSE i \in 1..Len(mt.cases) :
            /\ mt.cases[i].value = match_value
            /\ \A j \in 1..(i - 1) : mt.cases[j].value # match_value
    ELSE 0

\* the branch lines 500-510 run: the matched case, default when no case
\* matched, <<>> when there is neither
ArmToRun(mt, hit) ==
    IF hit # 0 THEN <<mt.cases[hit].branch>> ELSE mt.default_branch

\* result.update(case_result) / result.update(default_result) on result = {}
ArmDone(c) ==
    IF c.err # "none" THEN c ELSE Return(c, Update(EmptyRec, c.ret))

\* a dispatch that takes "no case and no default" for a failed lookup
RunArm_strict(m, arm, inputs) ==
    IF arm = <<>> THEN Fail(m, "LookupError")
    ELSE ArmDone(PipelineBranch_run(m, arm[1], inputs))

\* MatchCaseBranch.run, lines 498-510; m.ret is result afterwards
RunArm(m, arm, inputs) ==
    IF arm = <<>> THEN Return(m, EmptyRec)
    ELSE ArmDone(PipelineBranch_run(m, arm[1], inputs))

\* finally's record merged under the result instead of over it
FinallyDone_under(m1, f) ==
    IF f.err # "none" THEN f ELSE Return(f, Update(f.ret, m1.ret))

\* result.update(finally_result)
FinallyDone(m1, f) ==
    IF f.err # "none" THEN f ELSE Return(f, Update(m1.ret, f.ret))

\* finally run only when a case or default has run
RunFinally_afterArm(m1, mt, inputs) ==
    IF m1.err # "none" \/ mt.finally_branch = <<>> \/ m1.ret = EmptyRec THEN m1
    ELSE FinallyDone(m1, PipelineBranch_run(m1, mt.finally_branch[1], inputs))

\* MatchCaseBranch.run, lines 512-515
RunFinally(m1, mt, inputs) ==
    IF m1.err # "none" \/ mt.finally_branch = <<>> THEN m1
    ELSE FinallyDone(m1, PipelineBranch_run(m1, mt.finally_branch[1], inputs))

\* return result
MatchReturn(m2, mt, inputs) ==
    IF m2.err # "none" THEN m2
    ELSE [m2 EXCEPT !.trace =
            Append(@, Entry("matched", mt.id, mt.key_name, inputs, m2.ret, ""))]

\* MatchCaseBranch.run
MatchCaseBranch_run(m, mt, inputs) ==
    MatchReturn(
        RunFinally(
            RunArm(Log(m, "match", mt.id, mt.key_name, inputs),
                   ArmToRun(mt, MatchedCase(mt, MatchValue(mt, inputs))), inputs),
            mt, inputs),
        mt, inputs)

\* ------------------------------------------------------------------------
\* The pipelines that are built and run
\* ------------------------------------------------------------------------
Dict(items) == [form |-> "dict", items |-> items]
List(names) == [form |-> "list", names |-> names]
Str(name) == [form |-> "str", name |-> name]

CallDependency(deps) == [call |-> "dependency", arg |-> deps]
CallOutput(outs) == [call |-> "output", arg |-> outs]
CallTransformer(t) == [call |-> "transformer", arg |-> t]
CallStage(st) == [call |-> "stage", arg |-> st]
CallMatch(key_name, arms) == [call |-> "match", key |-> key_name, arg |-> arms]

Case(value, sts) == [arm |-> "case", value |-> value, stages |-> sts]
Default(sts) == [arm |-> "default", value |-> NoneV, stages |-> sts]
Finally(sts) == [arm |-> "finally", value |-> NoneV, stages |-> sts]

XInt == << <<"x", "int">> >>

\* testing.py, lines 3-21: the decorated functions
T_double == transformer(double, Unset, Unset, "x2")
S_double == stage(double, Unset, Unset, "x2")
S_add_one == stage(add_one, Unset, Unset, "x2plus1")
S_display_success == stage(display_success, Unset, Unset, "")
S_display_failure == stage(display_failure, Unset, Unset, "")
S_display_values == stage(display_values, Unset, Unset, "")

\* testing.py, lines 23-33: main
TestingScript ==
    << CallDependency(XInt),
       CallTransformer(T_double),
       CallStage(S_add_one),
       CallMatch("x2plus1",
                 << Case(IntV(2 * TestX + 1), <<S_display_success>>),
                    Default(<<S_display_failure>>),
                    Finally(<<S_display_values>>) >>) >>

\* Pipeline().stage(double).stage(add_one)
LinearScript == << CallStage(S_double), CallStage(S_add_one) >>

\* the same with the outputs pinned by output()
PinnedScript ==
    << CallOutput(<< <<"x2", "int">>, <<"x2plus1", "int">> >>),
       CallStage(S_double), CallStage(S_add_one) >>

\* a provider of x2 and two stages that both take x2
S_add_one_cached == stage(add_one_cached, Unset, Unset, "y")
SharedScript ==
    << CallDependency(XInt), CallTransformer(T_double),
       CallStage(S_add_one), CallStage(S_add_one_cached) >>

\* a cacheable stage fed by a stage
CachedScript == << CallStage(S_double), CallStage(S_add_one_cached) >>

\* one declared output, a function returning a 2-tuple
S_pair == stage(pair, Unset, List(<<"p">>), "")
PairScript == << CallStage(S_double), CallStage(S_pair) >>

\* open-typed inputs: an unannotated parameter, a list of names, a single
\* name, on a stage and on a provider
S_peek == stage(peek, Unset, List(<<"y">>), "")
S_first_list == stage(first, List(<<"x">>), List(<<"y">>), "")
S_first_str == stage(first, Str("x"), Str("y"), "")
T_peek == transformer(peek, Unset, Str("x2"), "")
OpenScripts ==
    { << CallStage(S_peek) >>,
      << CallStage(S_first_list) >>,
      << CallStage(S_first_str) >>,
      << CallDependency(XInt), CallStage(S_peek) >>,
      << CallDependency(XInt), CallStage(S_first_list) >>,
      << CallDependency(XInt), CallTransformer(T_peek), CallStage(S_add_one) >> }

\* match nodes keyed on x: up to two cases (equal values allowed), with or
\* without default, with or without finally; every arm writes a field
S_mark_case == stage(mark_case, Unset, Unset, "f")
S_mark_default == stage(mark_default, Unset, Unset, "f")
S_mark_finally(name) == stage(mark_finally, Unset, Unset, name)

CaseValues == {TestX, TestX - 1}
CaseLists ==
    {<<>>} \cup {<<a>> : a \in CaseValues} \cup {<<a, b>> : a \in CaseValues, b \in CaseValues}
FinallyNames == {"", "f", "g"}

MatchScript(values, hasDefault, finallyName) ==
    << CallDependency(XInt),
       CallMatch("x",
            [i \in 1..Len(values) |-> Case(IntV(values[i]), <<S_mark_case>>)]
            \o (IF hasDefault THEN <<Default(<<S_mark_default>>)>> ELSE <<>>)
            \o (IF finallyName # "" THEN <<Finally(<<S_mark_finally(finallyName)>>)>>
                ELSE <<>>)) >>

MatchScripts ==
    {MatchScript(vs, d, f) : vs \in CaseLists, d \in BOOLEAN, f \in FinallyNames}

\* no declared output (no return annotation, no output list): a function
\* returning a scalar, a dict, a 2-tuple
ZeroScripts == {<< CallStage(stage(f, Unset, Unset, "")) >> : f \in {quiet, leak, pair}}

\* a case branch whose second stage takes x2, a field of the parent scope
\* only: written there by a stage, or by a provider registered there
NestedScripts ==
    { << CallDependency(XInt), source,
         CallMatch("x", << Case(IntV(TestX), <<S_mark_case, S_add_one>>),
                           Default(<<S_mark_default>>) >>) >> :
        source \in {CallStage(S_double), CallTransformer(T_double)} }

\* two providers of x2 (double registered before triple), and a provider of
\* x4 and x6 that takes x2
ProviderScripts ==
    { << CallDependency(XInt), CallTransformer(T_double),
         CallTransformer(transformer(triple, Unset, Unset, "x2")),
         CallStage(S_add_one) >>,
      << CallDependency(XInt),
         CallTransformer(transformer(spread, Unset, List(<<"x4", "x6">>), "")),
         CallTransformer(T_double),
         CallTransformer(transformer(triple, Unset, Unset, "x2")),
         CallStage(stage(use4, Unset, Unset, "y")) >> }

\* dependency() and output() called between two stages
BuilderScript ==
    << CallStage(S_add_one), CallDependency(XInt), CallTransformer(T_double),
       CallOutput(<< <<"x2", "int">> >>), CallStage(S_add_one_cached) >>

\* no dependency declared and a first stage without inputs: every initial
\* record passes the validation of Pipeline._run, and double checks x itself
StaleScript == << CallStage(S_mark_case), CallStage(S_double) >>

\* two providers in a cycle: ping gives a from b, pong gives b from a
CyclicScript ==
    << CallDependency(XInt),
       CallTransformer(transformer(ping, Unset, Unset, "a")),
       CallTransformer(transformer(pong, Unset, Unset, "b")),
       CallStage(stage(use_a, Unset, Unset, "c")) >>

\* a case that takes x2 and does not run unless x = TestX - 1, with and
\* without a provider of x2 in the parent
LazyScripts ==
    { << CallDependency(XInt) >> \o providers \o
      << CallMatch("x", << Case(IntV(TestX - 1), <<S_add_one>>),
                           Default(<<S_mark_default>>) >>) >> :
        providers \in {<<>>, << CallTransformer(T_double) >>} }

\* a case that rewrites x, the key of its match node, and a finally that
\* writes g only
BumpScript ==
    << CallDependency(XInt),
       CallMatch("x", << Case(IntV(TestX), <<stage(bump, Unset, Unset, "x")>>),
                         Finally(<<S_mark_finally("g")>>) >>) >>

\* a match node without default, followed by a stage
MatchThenScripts ==
    { << CallDependency(XInt),
         CallMatch("x",
            [i \in 1..Len(values) |-> Case(IntV(values[i]), <<S_mark_case>>)]
            \o (IF finallyName # "" THEN <<Finally(<<S_mark_finally(finallyName)>>)>>
                ELSE <<>>)),
         CallStage(S_double) >> :
        values \in {<<>>, <<TestX - 1>>, <<TestX>>}, finallyName \in {"", "g"} }

Scripts ==
    {TestingScript, LinearScript, PinnedScript, SharedScript, CachedScript, PairScript,
     BuilderScript, StaleScript, CyclicScript, BumpScript}
        \cup OpenScripts \cup MatchScripts \cup MatchThenScripts
        \cup ZeroScripts \cup NestedScripts \cup ProviderScripts
        \cup LazyScripts

\* the initial records passed to run: {"x": v}, {} and {"x": "a"}
Records ==
    {[k \in {"x"} |-> IntV(v)] : v \in XVals} \cup {EmptyRec, [k \in {"x"} |-> StrV]}

\* ------------------------------------------------------------------------
\* State
\* ------------------------------------------------------------------------
VARIABLES
    script,     \* the builder calls still to be made
    pipeline,   \* the Pipeline object: transforms, stages, dependencies, outputs
    recs,       \* data_records of the pipeline (id <<>>) and of every branch
    cache,      \* the lru_cache table of every @cache function
    trace,      \* history: the calls made so far
    pc,         \* "build", "ready", "running", "returned", "raised"
    idx,        \* position of the running _run in self.stages
    runs,       \* number of calls of run so far
    inputs,     \* the initial record of the current (or last) run
    result,     \* what the last run returned
    err,        \* the exception the last run raised, "none" if none
    other       \* a second invocation of run on the same instance, made while
                \* the first is between two stages: its pc, idx, inputs,
                \* result and err

vars == <<script, pipeline, recs, cache, trace, pc, idx, runs, inputs, result, err, other>>

Machine ==
    [recs |-> recs, cache |-> cache, trace |-> trace, err |-> "none", ret |-> EmptyRec,
     depth |-> 0]

\* no second invocation has been made
NoCall == [pc |-> "ready", idx |-> 0, inputs |-> EmptyRec, result |-> EmptyRec, err |-> "none"]

Init ==
    /\ script \in Scripts
    /\ pipeline = NewPipeline(<<>>)
    /\ recs = [id \in {<<>>} |-> EmptyRec]
    /\ cache = [n \in CachedNames |-> <<>>]
    /\ trace = <<>>
    /\ pc = "build"
    /\ idx = 0
    /\ runs = 0
    /\ inputs = EmptyRec
    /\ result = EmptyRec
    /\ err = "none"
    /\ other = NoCall

\* ------------------------------------------------------------------------
\* Builder calls
\* ------------------------------------------------------------------------
Built(p) ==
    /\ pipeline' = p
    /\ script' = Tail(script)
    /\ pc' = IF Tail(script) = <<>> THEN "ready" ELSE "build"
    /\ UNCHANGED <<cache, trace, idx, runs, inputs, result, err, other>>

BuildDependency ==
    /\ pc = "build" /\ script[1].call = "dependency"
    /\ Built(Pipeline_dependency(pipeline, script[1].arg))
    /\ UNCHANGED recs

BuildOutput ==
    /\ pc = "build" /\ script[1].call = "output"
    /\ Built(Pipeline_output(pipeline, script[1].arg))
    /\ UNCHANGED recs

BuildTransformer ==
    /\ pc = "build" /\ script[1].call = "transformer"
    /\ Built(Pipeline_transformer(pipeline, script[1].arg))
    /\ UNCHANGED recs

BuildStage ==
    /\ pc = "build" /\ script[1].call = "stage"
    /\ Built(Pipeline_stage(pipeline, script[1].arg))
    /\ UNCHANGED recs

\* every branch the match node creates starts with an empty record store
BuildMatch ==
    /\ pc = "build" /\ script[1].call = "match"
    /\ LET p == match(pipeline, script[1].key, script[1].arg)
           ids == BranchIds(p.stages[Len(p.stages)])
       IN /\ Built(p)
          /\ recs' = [id \in DOMAIN recs \cup ids |->
                        IF id \in DOMAIN recs THEN recs[id] ELSE EmptyRec]

\* ------------------------------------------------------------------------
\* Pipeline.run(inputs), at stage granularity
\* ------------------------------------------------------------------------
Idle == pc \in {"ready", "returned", "raised"}

Commit(m) ==
    /\ recs' = m.recs
    /\ cache' = m.cache
    /\ trace' = m.trace

\* a step of the run took the machine to m: the run goes on, or m.err
\* propagates to the caller of run
Ran(m) ==
    /\ Commit(m)
    /\ err' = m.err
    /\ pc' = IF m.err # "none" THEN "raised" ELSE "running"

\* run is called: Pipeline._run validates the initial record and merges it
RunStart(rec) ==
    /\ Idle /\ runs < MaxRuns
    /\ Ran(RunHead(Log(Machine, "run", <<>>, "", rec), pipeline, rec))
    /\ idx' = 1
    /\ runs' = runs + 1
    /\ inputs' = rec
    /\ result' = EmptyRec
    /\ UNCHANGED <<script, pipeline, other>>

\* one iteration of the loop of Pipeline._run, parent = None
RunStage ==
    /\ pc = "running" /\ idx <= Len(pipeline.stages)
    /\ Ran(RunIteration(Machine, pipeline, idx, TRUE))
    /\ idx' = idx + 1
    /\ UNCHANGED <<script, pipeline, runs, inputs, result, other>>

\* Pipeline.run, lines 401-402: the store projected on the declared outputs
Projection(all_data, outputs) ==
    [k \in DOMAIN all_data \cap KeySet(outputs) |-> all_data[k]]

RunReturn ==
    /\ pc = "running" /\ idx > Len(pipeline.stages)
    /\ result' = Projection(recs[<<>>], pipeline.outputs)
    /\ pc' = "returned"
    /\ trace' = Append(trace, Entry("return", <<>>, "", inputs,
                                    Projection(recs[<<>>], pipeline.outputs), ""))
    /\ UNCHANGED <<script, pipeline, recs, cache, idx, runs, inputs, err, other>>

\* the stages and providers of p, in the order Pipeline._clear_cache visits them
Runnables(p) == p.stages \o p.transforms

RECURSIVE ClearAll(_, _)
\* FunctionStage.clear_cache / PipelineTransformer.clear_cache on each runnable
ClearAll(m, rs) ==
    IF rs = <<>> THEN m
    ELSE IF rs[1].kind \in {"func", "transformer"} /\ rs[1].cached
    THEN ClearAll(Log([m EXCEPT !.cache[rs[1].name] = <<>>], "clear", <<>>, rs[1].name, EmptyRec),
                  Tail(rs))
    ELSE ClearAll(m, Tail(rs))

\* Pipeline._clear_cache, between two runs; clearing twice in a row is
\* clearing once
ClearCache ==
    /\ Idle
    /\ trace # <<>> /\ trace[Len(trace)].ev # "clear"
    /\ Commit(ClearAll(Machine, Runnables(pipeline)))
    /\ UNCHANGED <<script, pipeline, pc, idx, runs, inputs, result, err, other>>

Next ==
    \/ BuildDependency
    \/ BuildOutput
    \/ BuildTransformer
    \/ BuildStage
    \/ BuildMatch
    \/ \E rec \in Records : RunStart(rec)
    \/ RunStage
    \/ RunReturn
    \/ ClearCache

Spec == Init /\ [][Next]_vars

\* ------------------------------------------------------------------------
\* Two invocations of run on one instance, interleaved at stage granularity.
\* The locals of _run (required_inputs, result, the position in self.stages)
\* belong to each invocation; self.data_records and the caches belong to the
\* instance.
\* ------------------------------------------------------------------------
\* a step of the second invocation took the machine to m
OtherRan(m, i, rec) ==
    /\ Commit(m)
    /\ other' = [pc |-> IF m.err # "none" THEN "raised" ELSE "running",
                 idx |-> i, inputs |-> rec, result |-> EmptyRec, err |-> m.err]

\* the second invocation is made once, at any moment after the build
OtherStart(rec) ==
    /\ pc # "build" /\ other = NoCall /\ runs < MaxRuns
    /\ OtherRan(RunHead(Log(Machine, "run", <<>>, "", rec), pipeline, rec), 1, rec)
    /\ runs' = runs + 1
    /\ UNCHANGED <<script, pipeline, pc, idx, inputs, result, err>>

OtherStage ==
    /\ other.pc = "running" /\ other.idx <= Len(pipeline.stages)
    /\ OtherRan(RunIteration(Machine, pipeline, other.idx, TRUE), other.idx + 1, other.inputs)
    /\ UNCHANGED <<script, pipeline, pc, idx, runs, inputs, result, err>>

OtherReturn ==
    /\ other.pc = "running" /\ other.idx > Len(pipeline.stages)
    /\ other' = [other EXCEPT !.pc = "returned",
                              !.result = Projection(recs[<<>>], pipeline.outputs)]
    /\ trace' = Append(trace, Entry("return", <<>>, "", other.inputs,
                                    Projection(recs[<<>>], pipeline.outputs), ""))
    /\ UNCHANGED <<script, pipeline, recs, cache, pc, idx, runs, inputs, result, err>>

NextInterleaved ==
    \/ BuildDependency
    \/ BuildOutput
    \/ BuildTransformer
    \/ BuildStage
    \/ BuildMatch
    \/ \E rec \in Records : RunStart(rec)
    \/ RunStage
    \/ RunReturn
    \/ \E rec \in Records : OtherStart(rec)
    \/ OtherStage
    \/ OtherReturn

\* the pipelines on which the two invocations are made
InterleavedScripts == {TestingScript, LinearScript, PinnedScript}

InitInterleaved == Init /\ script \in InterleavedScripts

SpecInterleaved == InitInterleaved /\ [][NextInterleaved]_vars

\* ------------------------------------------------------------------------
\* Reading the history
\* ------------------------------------------------------------------------
RECURSIVE LastBefore(_, _, _)
\* the position of the last entry of kind ev (and of name name, unless name
\* is "") among the first i entries, 0 when there is none
LastBefore(ev, name, i) ==
    IF i = 0 THEN 0
    ELSE IF trace[i].ev = ev /\ (name = "" \/ trace[i].name = name) THEN i
    ELSE LastBefore(ev, name, i - 1)

LastOf(ev) == LastBefore(ev, "", Len(trace))

\* the entries of the current (or last) run
ThisRun == LET a == LastOf("run") IN IF a = 0 THEN {} ELSE a..Len(trace)

\* how many times the body of function name ran during this run
ExecsThisRun(name) ==
    Cardinality({i \in ThisRun : trace[i].ev = "exec" /\ trace[i].name = name})

InvokedThisRun(name) ==
    \E i \in ThisRun : trace[i].ev = "invoke" /\ trace[i].name = name

IntX(rec) == DOMAIN rec = {"x"} /\ rec["x"].ty = "int"
Rec1(k, v) == [f \in {k} |-> v]

\* ------------------------------------------------------------------------
\* C1: the linear pipeline x2 = x*2, x2plus1 = x2+1, with no dependency and
\* no output declared, returns exactly {x2plus1: 2*v+1} on {x: v}: the run
\* does not raise and the result holds neither x nor x2.
\* ------------------------------------------------------------------------
LinearPipeline ==
    /\ script = <<>>
    /\ pipeline.stages = <<S_double, S_add_one>>
    /\ pipeline.transforms = <<>>
    /\ ~pipeline.deps_set /\ ~pipeline.out_set

C1_LinearResult ==
    (LinearPipeline /\ runs > 0 /\ IntX(inputs)) =>
        /\ pc # "raised"
        /\ pc = "returned" => result = Rec1("x2plus1", IntV(2 * inputs["x"].v + 1))

C1_Witness ==
    /\ LinearPipeline /\ pc = "returned" /\ runs = MaxRuns
    /\ inputs = Rec1("x", IntV(TestX))
    /\ result = Rec1("x2plus1", IntV(2 * TestX + 1))
    /\ DOMAIN recs[<<>>] = {"x", "x2", "x2plus1"}

\* ------------------------------------------------------------------------
\* C2: with a provider of x2 and two stages that both take x2, the provider's
\* function runs exactly once in every run made on the instance.
\* ------------------------------------------------------------------------
SharedPipeline ==
    /\ script = <<>>
    /\ pipeline.transforms = <<T_double>>
    /\ pipeline.stages = <<S_add_one, S_add_one_cached>>

C2_ProviderOncePerRun ==
    (SharedPipeline /\ pc = "returned") => ExecsThisRun("double") = 1

\* ------------------------------------------------------------------------
\* The last run of a match node, read from the history: a is the position of
\* its "match" entry, mt the node
\* ------------------------------------------------------------------------
NodeAt(a) ==
    pipeline.stages[CHOOSE i \in 1..Len(pipeline.stages) :
        pipeline.stages[i].kind = "match" /\ pipeline.stages[i].id = trace[a].sc]
KeyAt(a, mt) == trace[a].args[mt.key_name]
Ids(branches) == {branches[i].id : i \in 1..Len(branches)}
CaseIds(mt) == {mt.cases[i].branch.id : i \in 1..Len(mt.cases)}
ArmIds(mt) == CaseIds(mt) \cup Ids(mt.default_branch)

\* the entries made by the run of branch id, and whether it ran
BranchRuns(a, ids) == {i \in a..Len(trace) : trace[i].ev = "branch" /\ trace[i].sc \in ids}
BranchRan(a, id) == \E i \in a..Len(trace) : trace[i].ev = "branch" /\ trace[i].sc = id
StageExecs(a, ids) == {i \in a..Len(trace) : trace[i].ev = "exec" /\ trace[i].sc \in ids}
Returned(a) == \E i \in a..Len(trace) : trace[i].ev = "matched"
ResultAt(a) == trace[CHOOSE i \in a..Len(trace) : trace[i].ev = "matched"].out

\* the entries where a stage of branch id returned its outputs, the fields
\* they wrote, and the last value written to field n
Writes(a, id) == {i \in a..Len(trace) : trace[i].ev = "output" /\ trace[i].sc = id}
Written(a, id) == UNION {DOMAIN trace[i].out : i \in Writes(a, id)}
LastWrite(a, id, n) ==
    LET w == {i \in Writes(a, id) : n \in DOMAIN trace[i].out}
    IN trace[CHOOSE i \in w : \A j \in w : j <= i].out[n]

\* ------------------------------------------------------------------------
\* C3: when a match node runs, the stages of at most one of the cases and
\* default execute: case i runs iff its value equals the key and no earlier
\* case value does; default runs iff it is registered and no case value
\* equals the key.
\* ------------------------------------------------------------------------
C3_FirstMatchOnly ==
    LET a == LastOf("match") IN
    a # 0 =>
        LET mt == NodeAt(a)
            key == KeyAt(a, mt)
        IN /\ \A i \in 1..Len(mt.cases) :
                BranchRan(a, mt.cases[i].branch.id) <=>
                    /\ mt.cases[i].value = key
                    /\ \A j \in 1..(i - 1) : mt.cases[j].value # key
           /\ \A id \in Ids(mt.default_branch) :
                BranchRan(a, id) <=> \A i \in 1..Len(mt.cases) : mt.cases[i].value # key
           /\ Cardinality(BranchRuns(a, ArmIds(mt))) <= 1
           /\ \A i \in StageExecs(a, ArmIds(mt)) : BranchRan(a, trace[i].sc)

C3_Witness ==
    LET a == LastOf("match") IN
    /\ a # 0 /\ pc = "returned"
    /\ LET mt == NodeAt(a)
       IN /\ Len(mt.cases) = 2 /\ mt.default_branch # <<>>
          /\ mt.cases[1].value = KeyAt(a, mt) /\ mt.cases[2].value = KeyAt(a, mt)
          /\ StageExecs(a, {mt.cases[1].branch.id}) # {}
          /\ StageExecs(a, {mt.cases[2].branch.id} \cup Ids(mt.default_branch)) = {}

\* ------------------------------------------------------------------------
\* C4: when a match node with a finally branch runs (and returns), every
\* stage of finally executes exactly once, after every stage of the case or
\* default that ran, whether a case ran, default ran, or neither.
\* ------------------------------------------------------------------------
C4_FinallyLast ==
    LET a == LastOf("match") IN
    (a # 0 /\ Returned(a)) =>
        LET mt == NodeAt(a) IN
        \A fin \in Ids(mt.finally_branch) :
            /\ Cardinality(BranchRuns(a, {fin})) = 1
            /\ \A k \in 1..Len(mt.finally_branch[1].stages) :
                 Cardinality({i \in StageExecs(a, {fin}) :
                    trace[i].name = mt.finally_branch[1].stages[k].name}) = 1
            /\ \A j \in BranchRuns(a, {fin}) : \A i \in j..Len(trace) :
                 trace[i].sc \notin ArmIds(mt)

C4_Witness ==
    LET a == LastOf("match") IN
    /\ a # 0 /\ Returned(a) /\ pc = "returned"
    /\ LET mt == NodeAt(a)
       IN /\ mt.finally_branch # <<>> /\ mt.default_branch = <<>> /\ Len(mt.cases) = 2
          /\ BranchRuns(a, CaseIds(mt)) = {}
          /\ Cardinality(StageExecs(a, Ids(mt.finally_branch))) = 1

\* ------------------------------------------------------------------------
\* C5: when the case (or default) that ran and finally both wrote a field,
\* the field has finally's value in the match node's result, in the parent
\* store after the merge, and in the result of the run.
\* ------------------------------------------------------------------------
C5_FinallyWins ==
    LET a == LastOf("match") IN
    (a # 0 /\ Returned(a)) =>
        LET mt == NodeAt(a) IN
        \A fin \in Ids(mt.finally_branch) : \A arm \in ArmIds(mt) :
            \A n \in Written(a, arm) \cap Written(a, fin) :
                /\ ResultAt(a)[n] = LastWrite(a, fin, n)
                /\ recs[<<>>][n] = LastWrite(a, fin, n)
                /\ (pc = "returned" /\ n \in KeySet(pipeline.outputs)) =>
                        result[n] = LastWrite(a, fin, n)

C5_Witness ==
    LET a == LastOf("match") IN
    /\ a # 0 /\ Returned(a) /\ pc = "returned"
    /\ LET mt == NodeAt(a)
       IN \E fin \in Ids(mt.finally_branch) : \E arm \in CaseIds(mt) :
            /\ "f" \in Written(a, arm) \cap Written(a, fin)
            /\ LastWrite(a, arm, "f") = IntV(1) /\ LastWrite(a, fin, "f") = IntV(3)
    /\ result = Rec1("f", IntV(3))

\* ------------------------------------------------------------------------
\* C6: a top-level run whose initial record lacks a key of the dependency
\* schema, or holds a value of another type than the declared one, raises
\* before any stage or provider is invoked and leaves every record store (and
\* cache) as it was.
\* ------------------------------------------------------------------------
Invalid(rec) ==
    \E i \in 1..Len(pipeline.dependencies) :
        \/ pipeline.dependencies[i][1] \notin DOMAIN rec
        \/ /\ pipeline.dependencies[i][2] # "Any"
           /\ rec[pipeline.dependencies[i][1]].ty # pipeline.dependencies[i][2]

C6_InvalidRecordAborts ==
    [][(runs' = runs + 1 /\ Invalid(inputs')) =>
            /\ pc' = "raised" /\ err' \in {"KeyError", "TypeError"}
            /\ recs' = recs /\ cache' = cache
            /\ \A i \in (Len(trace) + 1)..Len(trace') :
                    trace'[i].ev \notin {"invoke", "exec", "branch", "match", "output"}]_vars

C6_Witness ==
    /\ pc = "raised" /\ runs = MaxRuns /\ err = "TypeError"
    /\ inputs = Rec1("x", StrV) /\ Invalid(inputs)
    /\ trace[Len(trace) - 1].ev = "run"
    /\ DOMAIN recs[<<>>] = {"x", "x2", "x2plus1"} /\ recs[<<>>]["x"].ty = "int"

\* ------------------------------------------------------------------------
\* C7: a stage declared with one output whose function returns a 2-tuple is
\* accepted when it is declared and registered; it fails (ValueError) when it
\* is invoked and only then, the run raises, and nothing it returned reaches
\* the record store.
\* ------------------------------------------------------------------------
HasPair == \E i \in 1..Len(pipeline.stages) : pipeline.stages[i] = S_pair

C7_ArityFailsAtInvocation ==
    HasPair =>
        /\ pc \in {"build", "ready"} => err = "none"
        /\ InvokedThisRun("pair") => (pc = "raised" /\ err = "ValueError")
        /\ err = "ValueError" => InvokedThisRun("pair")
        /\ DOMAIN recs[<<>>] \subseteq {"x", "x2"}
        /\ (pc = "raised" /\ err = "ValueError") =>
                recs[<<>>] = [k \in {"x", "x2"} |->
                                IF k = "x" THEN inputs["x"] ELSE IntV(2 * inputs["x"].v)]

C7_Witness ==
    /\ HasPair /\ pc = "raised" /\ err = "ValueError"
    /\ InvokedThisRun("pair")
    /\ inputs = Rec1("x", IntV(TestX))
    /\ recs[<<>>] = [k \in {"x", "x2"} |-> IF k = "x" THEN IntV(TestX) ELSE IntV(2 * TestX)]

\* ------------------------------------------------------------------------
\* C8: since the last clear_cache(), however many times a cacheable stage
\* has been invoked with the same (hashable) input values, in one run or in
\* several, its function has executed exactly once for those values: so the
\* first invocation after clear_cache() executes again.  Two invocations
\* with the same values return the same outputs.
\* ------------------------------------------------------------------------
LastClear(name) == LastBefore("clear", name, Len(trace))

\* the completed invocations of function name since position c, the
\* executions of its body on arguments args since position c
Completed(name, c) ==
    {i \in (c + 1)..Len(trace) : trace[i].ev = "output" /\ trace[i].name = name}
Executed(name, args, c) ==
    {i \in (c + 1)..Len(trace) :
        trace[i].ev = "exec" /\ trace[i].name = name /\ trace[i].args = args}

TestingPipeline ==
    /\ script = <<>>
    /\ pipeline.deps_set /\ ~pipeline.out_set
    /\ pipeline.transforms = <<T_double>>
    /\ Len(pipeline.stages) = 2
    /\ pipeline.stages[1] = S_add_one
    /\ pipeline.stages[2].kind = "match"

C9_TestingResult ==
    (TestingPipeline /\ pc = "returned" /\ runs = 1 /\ IntX(inputs)) =>
        result = Rec1("x2plus1", IntV(2 * inputs["x"].v + 1))

\* ------------------------------------------------------------------------
\* C10: no validation (of a stage's or provider's inputs, or of a top-level
\* initial record) fails the type check of an open-typed field whose key is
\* present.
\* ------------------------------------------------------------------------
C10_OpenTypeAccepts ==
    \A i \in 1..Len(trace) :
        ~(/\ trace[i].ev = "TypeError"
          /\ trace[i].type = "Any"
          /\ trace[i].name \in DOMAIN trace[i].args)

\* ------------------------------------------------------------------------
\* C11: when a match node runs on a key that equals no case value and no
\* default is registered, no stage of a case executes, the node returns
\* (after one run of finally when finally is registered), the run does not
\* raise, and a run that returns has invoked every stage after the node.
\* ------------------------------------------------------------------------
NoArm(a, mt) ==
    /\ mt.default_branch = <<>>
    /\ \A i \in 1..Len(mt.cases) : mt.cases[i].value # KeyAt(a, mt)

InvokedAfter(a, st) ==
    \E i \in a..Len(trace) :
        trace[i].ev = "invoke" /\ trace[i].sc = <<>> /\ trace[i].name = st.name

ZeroOutputPipeline ==
    /\ script = <<>>
    /\ Len(pipeline.stages) = 1
    /\ pipeline.stages[1].kind = "func"
    /\ pipeline.stages[1].outputs = <<>>

C12_ZeroOutputsDiscard ==
    (ZeroOutputPipeline /\ runs > 0 /\ IntX(inputs)) =>
        /\ pc # "raised"
        /\ DOMAIN recs[<<>>] = {"x"}

\* ------------------------------------------------------------------------
\* C13: a stage of a branch requests x2, which is neither in the branch's
\* store nor an output of a provider of the branch, while the parent scope
\* holds x2 (or a provider of it): the request is delegated to the parent,
\* the stage receives the parent's x2 and nothing is raised.
\* ------------------------------------------------------------------------
NestedPipeline ==
    /\ script = <<>>
    /\ \E i \in 1..Len(pipeline.stages) :
            /\ pipeline.stages[i].kind = "match"
            /\ Len(pipeline.stages[i].cases) = 1
            /\ pipeline.stages[i].cases[1].branch.stages = <<S_mark_case, S_add_one>>

C13_DelegatesToParent ==
    LET a == LastOf("match") IN
    (NestedPipeline /\ a # 0 /\ a > LastOf("run")) =>
        LET mt == NodeAt(a) IN
        BranchRan(a, mt.cases[1].branch.id) =>
            /\ pc # "raised"
            /\ \E i \in a..Len(trace) :
                    /\ trace[i].ev = "exec" /\ trace[i].name = "add_one"
                    /\ trace[i].sc = mt.cases[1].branch.id
                    /\ trace[i].args = Rec1("x2", IntV(2 * inputs["x"].v))

\* ------------------------------------------------------------------------
\* C14: with double and triple both registered as providers of x2 (double
\* first), a request for an absent x2 invokes double and never triple; a
\* provider is invoked on inputs resolved in the same scope, through other
\* providers where needed (spread takes the x2 double returned, double the x
\* of the run); everything a provider returns is in the store afterwards;
\* and a field that is in the store is returned without invoking a provider,
\* so that no provider runs a second time on the instance.
\* ------------------------------------------------------------------------
ProviderPipeline ==
    \E i, j \in 1..Len(pipeline.transforms) :
        /\ i < j
        /\ pipeline.transforms[i].name = "double" /\ pipeline.transforms[j].name = "triple"
        /\ pipeline.transforms[i].outputs = pipeline.transforms[j].outputs

Execs(name) == {i \in 1..Len(trace) : trace[i].ev = "exec" /\ trace[i].name = name}
Outputs(name) == {i \in 1..Len(trace) : trace[i].ev = "output" /\ trace[i].name = name}

C14_FirstProviderResolves ==
    ProviderPipeline =>
        /\ Execs("triple") = {}
        /\ \A n \in {"double", "spread"} :
            /\ Cardinality(Execs(n)) <= 1
            /\ \A i \in Outputs(n) : \A k \in DOMAIN trace[i].out :
                    k \in DOMAIN recs[<<>>] /\ recs[<<>>][k] = trace[i].out[k]
        /\ \A i \in Execs("double") :
                trace[i].args = Rec1("x", trace[LastBefore("run", "", i)].args["x"])
        /\ \A i \in Execs("spread") :
                \E j \in Outputs("double") : j < i /\ trace[i].args = trace[j].out
        /\ \A i \in Execs("add_one") \cup Execs("use4") :
                \A k \in DOMAIN trace[i].args : recs[<<>>][k] = trace[i].args[k]

C14_Witness ==
    /\ ProviderPipeline /\ pc = "returned" /\ runs = 2
    /\ Cardinality(Execs("double")) = 1 /\ Cardinality(Execs("spread")) = 1
    /\ Cardinality(Execs("use4")) = 2
    /\ Execs("triple") = {}
    /\ inputs = Rec1("x", IntV(TestX + 1))
    /\ recs[<<>>] = [k \in {"x", "x2", "x4", "x6", "y"} |->
            CASE k = "x"  -> IntV(TestX + 1)
              [] k = "x2" -> IntV(2 * TestX)
              [] k = "x4" -> IntV(4 * TestX)
              [] k = "x6" -> IntV(6 * TestX)
              [] OTHER    -> IntV(4 * TestX + 1)]

\* ------------------------------------------------------------------------
\* C15: after every builder call, on the pipeline and on every branch of its
\* match nodes: while dependency() has not been called the dependency schema
\* is the input schema of the first stage (empty while there is no stage);
\* while output() has not been called the output schema is the output schema
\* of the last appended stage; once dependency() (output()) has been called,
\* appending a stage leaves the dependency (output) schema as it is.
\* ------------------------------------------------------------------------
Inferred(p) ==
    /\ ~p.deps_set =>
            p.dependencies = IF p.stages = <<>> THEN <<>> ELSE get_inputs(p.stages[1])
    /\ ~p.out_set =>
            p.outputs = IF p.stages = <<>> THEN <<>> ELSE get_outputs(p.stages[Len(p.stages)])

BranchesOf(p) ==
    UNION {{Arms(p.stages[i])[k] : k \in 1..Len(Arms(p.stages[i]))} :
            i \in {j \in 1..Len(p.stages) : p.stages[j].kind = "match"}}

SchemasInferred == Inferred(pipeline) /\ \A br \in BranchesOf(pipeline) : Inferred(br)

PinnedKept ==
    /\ pipeline.deps_set =>
            /\ pipeline'.deps_set
            /\ pipeline'.stages # pipeline.stages =>
                    pipeline'.dependencies = pipeline.dependencies
    /\ pipeline.out_set =>
            /\ pipeline'.out_set
            /\ pipeline'.stages # pipeline.stages => pipeline'.outputs = pipeline.outputs

C15_SchemaInference == []SchemasInferred /\ [][PinnedKept]_vars

C15_Witness ==
    /\ script = <<>> /\ pc = "ready"
    /\ pipeline.deps_set /\ pipeline.out_set
    /\ pipeline.stages = <<S_add_one, S_add_one_cached>>
    /\ pipeline.dependencies = XInt
    /\ pipeline.dependencies # get_inputs(pipeline.stages[1])
    /\ pipeline.outputs = << <<"x2", "int">> >>
    /\ pipeline.outputs # get_outputs(pipeline.stages[2])

\* ------------------------------------------------------------------------
\* C16: when a run raises at its k-th stage, no result is returned, no stage
\* after the k-th has been invoked, and the pipeline's record store holds the
\* initial record plus exactly what the stages 1..k-1 and the providers
\* resolved before the failure merged during this run.
\* ------------------------------------------------------------------------
RECURSIVE MergedSince(_, _)
\* acc updated with everything merged into the top-level store from entry i on
MergedSince(i, acc) ==
    IF i > Len(trace) THEN acc
    ELSE IF \/ trace[i].ev = "output" /\ trace[i].sc = <<>>
            \/ trace[i].ev = "matched" /\ Len(trace[i].sc) = 1
    THEN MergedSince(i + 1, Update(acc, trace[i].out))
    ELSE MergedSince(i + 1, acc)

\* the run raised in the loop over the stages, the failing stage is idx - 1
RaisedAtStage == pc = "raised" /\ idx > 1

C16_AbortKeepsMerged ==
    RaisedAtStage =>
        /\ result = EmptyRec
        /\ \A k \in idx..Len(pipeline.stages) :
                ~InvokedAfter(LastOf("run"), pipeline.stages[k])
        /\ recs[<<>>] = MergedSince(LastOf("run") + 1, inputs)

\* ------------------------------------------------------------------------
\* C17: a run that requests a field through providers whose inputs and
\* outputs form a cycle (none of their fields being in the store) ends in a
\* resolution failure (LookupError, or the KeyError _run makes of it); the
\* resolver does not recurse until the call stack is exhausted.
\* ------------------------------------------------------------------------
CyclicPipeline ==
    /\ script = <<>> /\ Len(pipeline.transforms) = 2
    /\ pipeline.transforms[1].inputs = pipeline.transforms[2].outputs
    /\ pipeline.transforms[2].inputs = pipeline.transforms[1].outputs

C17_CycleEndsInResolutionFailure ==
    (CyclicPipeline /\ runs > 0 /\ IntX(inputs) /\ idx > 1) =>
        /\ pc = "raised"
        /\ err \in {"KeyError", "LookupError"}

\* ------------------------------------------------------------------------
\* C18: two invocations of run on one instance, interleaved between stages,
\* work on one record store: every value a top-level stage, provider or match
\* node receives, and every value a run returns, is the value last written
\* to that field of the store, by whichever invocation wrote it.  So an
\* invocation can return a value computed from the other invocation's
\* initial record (the witness).
\* ------------------------------------------------------------------------
\* entry j merged the field k into the top-level store
Wrote(j, k) ==
    \/ /\ trace[j].ev = "run" /\ k \in DOMAIN trace[j].args
       /\ ~(j < Len(trace) /\ trace[j + 1].ev \in {"KeyError", "TypeError"}
                           /\ trace[j + 1].sc = <<>> /\ trace[j + 1].args = trace[j].args
                           /\ trace[j + 1].name \in KeySet(pipeline.dependencies))
    \/ /\ trace[j].ev = "output" /\ trace[j].sc = <<>> /\ k \in DOMAIN trace[j].out
    \/ /\ trace[j].ev = "matched" /\ Len(trace[j].sc) = 1 /\ k \in DOMAIN trace[j].out

RECURSIVE LastValue(_, _)
\* the value of field k in the top-level store after the first j entries
LastValue(k, j) ==
    IF j = 0 THEN NoneV
    ELSE IF Wrote(j, k)
    THEN (IF trace[j].ev = "run" THEN trace[j].args[k] ELSE trace[j].out[k])
    ELSE LastValue(k, j - 1)

\* what entry i read from the top-level store
ReadAt(i) ==
    CASE trace[i].ev = "invoke" /\ trace[i].sc = <<>>     -> trace[i].args
      [] trace[i].ev = "match" /\ Len(trace[i].sc) = 1    -> trace[i].args
      [] trace[i].ev = "return"                           -> trace[i].out
      [] OTHER                                            -> EmptyRec

C18_SharedStore ==
    \A i \in 1..Len(trace) :
        \A k \in DOMAIN ReadAt(i) : ReadAt(i)[k] = LastValue(k, i - 1)

C18_Witness ==
    /\ LinearPipeline /\ pc = "returned" /\ other.pc = "running"
    /\ inputs = Rec1("x", IntV(TestX))
    /\ other.inputs = Rec1("x", IntV(TestX + 1))
    /\ result = Rec1("x2plus1", IntV(2 * (TestX + 1) + 1))

\* ------------------------------------------------------------------------
\* C19: the result of a run that returns depends on the initial record of
\* that run only: it is the result the same run gives on an instance built
\* the same way on which nothing has run before (empty stores, empty caches).
\* ------------------------------------------------------------------------
FreshMachine ==
    [recs |-> [id \in DOMAIN recs |-> EmptyRec], cache |-> [n \in CachedNames |-> <<>>],
     trace |-> <<>>, err |-> "none", ret |-> EmptyRec, depth |-> 0]

FreshRun(rec) == Pipeline_run_(FreshMachine, pipeline, rec, TRUE)

C19_ResultFromRecordOnly ==
    pc = "returned" =>
        /\ FreshRun(inputs).err = "none"
        /\ result = Projection(FreshRun(inputs).recs[<<>>], pipeline.outputs)

\* ------------------------------------------------------------------------
\* C20: when a match node runs and its case does not execute, the provider
\* whose output only that case takes is not invoked, and the run does not
\* fail because that field cannot be resolved.
\* ------------------------------------------------------------------------
LazyPipeline ==
    /\ script = <<>>
    /\ Len(pipeline.stages) = 1 /\ pipeline.stages[1].kind = "match"
    /\ Len(pipeline.stages[1].cases) = 1
    /\ pipeline.stages[1].cases[1].branch.stages = <<S_add_one>>

C20_OnlyExecutingArmsResolved ==
    (/\ LazyPipeline /\ runs > 0 /\ idx > 1
     /\ IntX(inputs) /\ inputs["x"] # pipeline.stages[1].cases[1].value) =>
        /\ pc # "raised"
        /\ ExecsThisRun("double") = 0

\* ------------------------------------------------------------------------
\* C21: after a match node has run a case (or default) and finally, every
\* field a stage of the case (default) wrote and no stage of finally wrote
\* has, in the node's result and in the parent store, the value the case
\* (default) wrote, also when the field is one of the node's inputs.
\* ------------------------------------------------------------------------
C21_ArmFieldsKept ==
    LET a == LastOf("match") IN
    (a # 0 /\ Returned(a)) =>
        LET mt == NodeAt(a) IN
        \A fin \in Ids(mt.finally_branch) : \A arm \in ArmIds(mt) :
            \A n \in Written(a, arm) \ Written(a, fin) :
                /\ ResultAt(a)[n] = LastWrite(a, arm, n)
                /\ recs[<<>>][n] = LastWrite(a, arm, n)

====
